---- MODULE Spec2Model ----
(***************************************************************************)
(* Model of the section scanner, the section extractor and the two        *)
(* command-line comparators of the repository:                            *)
(*   src/compare_rule_var.py, src/test.py  find_section_lines,            *)
(*                                         get_section_value, main        *)
(*   src/compare_pr.py                     parse_yaml_and_get_keys, main  *)
(*                                                                         *)
(* Text is a sequence of one-character strings.  Line numbers are         *)
(* zero-based as in the source; line n of a list is lines[n + 1].         *)
(***************************************************************************)
EXTENDS Integers, Sequences, FiniteSets, TLC

VARIABLES
    file_contents,   \* find_section_lines: the list of lines scanned
    sec,             \* find_section_lines: the section identifier
    line_num,        \* find_section_lines: the scan index
    begin,           \* find_section_lines: start of the section being read
    sec_ranges,      \* find_section_lines: the (start, end) ranges found
    visited,         \* per line, how often the scanner has read it
    yml_file,        \* get_section_value: the file opened ([exists, text])
    keys_to_find,    \* get_section_value: the section names asked for
    lines,           \* get_section_value: the right-stripped lines of the file
    sections_value,  \* get_section_value: the mapping name -> section text
    script,          \* main: which command-line script runs
    args_keys,       \* main: args.keys
    before_content,  \* main: file content at the base revision
    after_content,   \* main: file content at the head revision
    before_value,    \* main: value extracted from before_content
    after_value,     \* main: value extracted from after_content
    rule_updated,    \* main: the flag printed on stdout ("" while not printed)
    exit_code,       \* process exit status (-1 while running)
    exits,           \* <<exit point, exit status>> of the runs finished so far
    pc               \* position in the code

scanVars == <<file_contents, sec, line_num, begin, sec_ranges, visited>>
extractVars == <<yml_file, keys_to_find, lines, sections_value>>
cliVars == <<script, args_keys, before_content, after_content, before_value,
             after_value, rule_updated, exits>>

vars == <<scanVars, extractVars, cliVars, exit_code, pc>>

----------------------------------------------------------------------------
(* Bounds and input alphabets *)

MaxLines == 4

NL  == "\n"
TAB == "\t"
SP  == " "

\* str.isspace() characters that occur in the modelled inputs
Whitespace == {SP, TAB, NL}

\* the lines the inputs are built from
LineShapes ==
    { <<>>,                          \* blank line
      <<"k", ":">>,                  \* the key alone
      <<"k", ":", SP, "x">>,         \* the key with an inline value
      <<SP, "x">>,                   \* space-indented continuation
      <<TAB, "x">>,                  \* tab-indented continuation
      <<"x", ":">>,                  \* another top-level key
      <<"k">>,                       \* shorter than the key token
      <<SP, "k", ":">> }             \* the key token, indented

SectionNames == { <<"k">>, <<"x">>, <<SP, "k">> }

SeqsUpTo(S, n) == UNION { [1..m -> S] : m \in 0..n }

----------------------------------------------------------------------------
(* find_section_lines, src/compare_rule_var.py:44-97 (= src/test.py:3-56) *)

\* line 77: sec_id = sec + ":"
SecId(s) == s \o <<":">>

\* lines 83-84: len(line) >= sec_len and line[0:sec_len] == sec_id
IsKeyLine(line, s) ==
    /\ Len(line) >= Len(SecId(s))
    /\ SubSeq(line, 1, Len(SecId(s))) = SecId(s)

\* line 89: nonempty_line and file_contents[line_num][0] != ' '
BreaksSection(line) == line # <<>> /\ line[1] # SP

\* slips of line 93: end = line_num + 1, end = line_num
RangeEnd_PlusOne(ln) == ln + 1

RangeEnd_NoMinus(ln) == ln

\* line 93: end = line_num - 1
RangeEnd(ln) == ln - 1

\* line 79: end_num = len(file_contents)
end_num == Len(file_contents)

Visit(n) == [visited EXCEPT ![n + 1] = @ + 1]

\* lines 82-84 and 95: the line at line_num is not a key line
OuterSkip ==
    /\ pc = "outer"
    /\ line_num < end_num
    /\ ~IsKeyLine(file_contents[line_num + 1], sec)
    /\ line_num' = line_num + 1
    /\ visited' = Visit(line_num)
    /\ UNCHANGED <<file_contents, sec, begin, sec_ranges, pc, extractVars, cliVars, exit_code>>

\* lines 82-86: the line at line_num is a key line
OuterMatch ==
    /\ pc = "outer"
    /\ line_num < end_num
    /\ IsKeyLine(file_contents[line_num + 1], sec)
    /\ begin' = line_num
    /\ line_num' = line_num + 1
    /\ visited' = Visit(line_num)
    /\ pc' = "inner"
    /\ UNCHANGED <<file_contents, sec, sec_ranges, extractVars, cliVars, exit_code>>

\* lines 87-91: the line at line_num continues the section
InnerAdvance ==
    /\ pc = "inner"
    /\ line_num < end_num
    /\ ~BreaksSection(file_contents[line_num + 1])
    /\ line_num' = line_num + 1
    /\ visited' = Visit(line_num)
    /\ UNCHANGED <<file_contents, sec, begin, sec_ranges, pc, extractVars, cliVars, exit_code>>

\* lines 87-94 without line 95: the outer loop resumes at the breaking line
InnerBreak_ResumeAtBreak ==
    /\ pc = "inner"
    /\ line_num < end_num
    /\ BreaksSection(file_contents[line_num + 1])
    /\ sec_ranges' = Append(sec_ranges, [start |-> begin, end |-> RangeEnd(line_num)])
    /\ visited' = Visit(line_num)
    /\ pc' = "outer"
    /\ UNCHANGED <<file_contents, sec, begin, line_num, extractVars, cliVars, exit_code>>

\* lines 87-90, 93-95: the line at line_num breaks the section
InnerBreak ==
    /\ pc = "inner"
    /\ line_num < end_num
    /\ BreaksSection(file_contents[line_num + 1])
    /\ sec_ranges' = Append(sec_ranges, [start |-> begin, end |-> RangeEnd(line_num)])
    /\ line_num' = line_num + 1
    /\ visited' = Visit(line_num)
    /\ pc' = "outer"
    /\ UNCHANGED <<file_contents, sec, begin, extractVars, cliVars, exit_code>>

\* lines 87, 93-95: the input ends inside the section
InnerEnd ==
    /\ pc = "inner"
    /\ line_num >= end_num
    /\ sec_ranges' = Append(sec_ranges, [start |-> begin, end |-> RangeEnd(line_num)])
    /\ line_num' = line_num + 1
    /\ pc' = "outer"
    /\ UNCHANGED <<file_contents, sec, begin, visited, extractVars, cliVars, exit_code>>

\* lines 82, 97: the outer loop ends
Return ==
    /\ pc = "outer"
    /\ line_num >= end_num
    /\ pc' = "done"
    /\ UNCHANGED <<scanVars, extractVars, cliVars, exit_code>>

\* no get_section_value call in progress
ExtractIdle ==
    /\ yml_file = [exists |-> FALSE, text |-> <<>>]
    /\ keys_to_find = <<>>
    /\ lines = <<>>
    /\ sections_value = <<>>

\* no main() in progress
CliIdle ==
    /\ script = "none"
    /\ args_keys = <<>>
    /\ before_content = <<>>
    /\ after_content = <<>>
    /\ before_value = <<>>
    /\ after_value = <<>>
    /\ rule_updated = ""
    /\ exits = {}

\* lines 74-80
Init ==
    /\ ExtractIdle
    /\ CliIdle
    /\ exit_code = -1
    /\ file_contents \in SeqsUpTo(LineShapes, MaxLines)
    /\ sec \in SectionNames
    /\ line_num = 0
    /\ begin = 0
    /\ sec_ranges = <<>>
    /\ visited = [n \in 1..Len(file_contents) |-> 0]
    /\ pc = "outer"

Next ==
    \/ OuterSkip
    \/ OuterMatch
    \/ InnerAdvance
    \/ InnerBreak
    \/ InnerEnd
    \/ Return

Spec == Init /\ [][Next]_vars

\* the interpreter keeps executing the loops until find_section_lines returns
FairSpec == Spec /\ WF_vars(Next)

----------------------------------------------------------------------------
(* Properties of the scanner *)

LineAt(n) == file_contents[n + 1]

Ranges == { sec_ranges[i] : i \in DOMAIN sec_ranges }

\* the line starts at column 0 with name + ":"
StartsWithKey(line, name) ==
    /\ Len(line) >= Len(name) + 1
    /\ \A c \in 1..Len(name) : line[c] = name[c]
    /\ line[Len(name) + 1] = ":"

BlankOrIndented(line) == line = <<>> \/ line[1] \in Whitespace

\* C1: when the scan of a name that does not begin with whitespace has
\* returned, every line that starts at column 0 with name + ":" is the start
\* of exactly one returned range.
C1_EveryKeyLineStartsOneRange ==
    (pc = "done" /\ sec # <<>> /\ sec[1] \notin Whitespace) =>
        \A n \in 0..(end_num - 1) :
            StartsWithKey(LineAt(n), sec) =>
                Cardinality({ i \in DOMAIN sec_ranges : sec_ranges[i].start = n }) = 1

\* C2: every returned range is maximal: its end is the last line, or the line
\* after its end is non-empty and begins with a non-whitespace character
\* (neither a space nor a tab).
C2_RangesAreMaximal ==
    pc = "done" =>
        \A r \in Ranges :
            \/ r.end = end_num - 1
            \/ /\ r.end + 1 < end_num
               /\ ~BlankOrIndented(LineAt(r.end + 1))

\* C3: the ranges are in strictly increasing order of start and do not
\* overlap: consecutive ranges satisfy s1 <= e1 < s2 <= e2.
C3_RangesIncreasingDisjoint ==
    \A i \in DOMAIN sec_ranges :
        /\ sec_ranges[i].start <= sec_ranges[i].end
        /\ i > 1 => sec_ranges[i - 1].end < sec_ranges[i].start

C3_Witness ==
    /\ pc = "done"
    /\ Len(sec_ranges) >= 2
    /\ sec_ranges[1].start < sec_ranges[1].end

\* C4: every range satisfies 0 <= start <= end < len(lines), the line at start
\* has name + ":" as a prefix at column 0, and every line in (start, end] is
\* empty or begins with a whitespace character.
C4_RangesWellFormed ==
    \A r \in Ranges :
        /\ 0 <= r.start
        /\ r.start <= r.end
        /\ r.end < end_num
        /\ StartsWithKey(LineAt(r.start), sec)
        /\ \A n \in (r.start + 1)..r.end : BlankOrIndented(LineAt(n))

C4_Witness ==
    /\ pc = "done"
    /\ \E r \in Ranges : r.start = r.end
    /\ \E r \in Ranges : r.start < r.end /\ r.end = end_num - 1 /\ LineAt(r.end) = <<>>

\* C10: the scan index strictly increases on every iteration of the outer and
\* the inner loop, no line is read twice, and the scan terminates with
\* line_num >= len(lines).
C10_SinglePassTerminates ==
    /\ [][pc' # "done" => line_num' > line_num]_vars
    /\ [](\A n \in DOMAIN visited : visited[n] <= 1)
    /\ [](pc = "done" => line_num >= end_num)
    /\ <>(pc = "done")

C10_Witness ==
    /\ pc = "done"
    /\ Len(sec_ranges) >= 2
    /\ line_num = end_num + 1
    /\ \A n \in DOMAIN visited : visited[n] = 1

----------------------------------------------------------------------------
(* find_section_lines as a function of its arguments *)

\* lines 87-91: the index at which the continuation loop stops
RECURSIVE InnerStop(_, _)
InnerStop(ls, ln) ==
    IF ln < Len(ls) /\ ~BreaksSection(ls[ln + 1])
    THEN InnerStop(ls, ln + 1)
    ELSE ln

\* lines 82-95: the ranges found from line ln on
RECURSIVE ScanFrom(_, _, _)
ScanFrom(ls, s, ln) ==
    IF ln >= Len(ls) THEN <<>>
    ELSE IF IsKeyLine(ls[ln + 1], s)
         THEN LET j == InnerStop(ls, ln + 1)
              IN  <<[start |-> ln, end |-> RangeEnd(j)]>> \o ScanFrom(ls, s, j + 1)
         ELSE ScanFrom(ls, s, ln + 1)

find_section_lines(ls, s) == ScanFrom(ls, s, 0)

\* the loop of the state machine computes the same list
ScannerAgrees == pc = "done" => sec_ranges = find_section_lines(file_contents, sec)

----------------------------------------------------------------------------
(* get_section_value, src/compare_rule_var.py:99-118 (= src/test.py:58-72) *)

FileLineShapes ==
    { <<>>,
      <<"k", ":">>,
      <<"k", ":", SP>>,              \* trailing blank, stripped by rstrip()
      <<SP, "x">>,
      <<SP>>,                        \* whitespace-only line
      <<TAB, "x">>,
      <<"x", ":">> }

KeyLists == { <<<<"k">>>>, <<<<"x">>>>, <<<<"x">>, <<"k">>>> }

\* '\n'.join(section_content), line 110
RECURSIVE Join(_)
Join(ls) ==
    IF ls = <<>> THEN <<>>
    ELSE IF Len(ls) = 1 THEN ls[1]
    ELSE ls[1] \o <<NL>> \o Join(Tail(ls))

FileTexts ==
    { Join(ls) \o t : ls \in SeqsUpTo(FileLineShapes, MaxLines), t \in {<<>>, <<NL>>} }

\* position of the first newline of a text, 0 when it has none
FirstNL(text) ==
    IF \E i \in DOMAIN text : text[i] = NL
    THEN CHOOSE i \in DOMAIN text : text[i] = NL /\ \A j \in 1..(i - 1) : text[j] # NL
    ELSE 0

\* f.readlines(), line 103: the lines of the text, each with its newline
RECURSIVE ReadLines(_)
ReadLines(text) ==
    IF text = <<>> THEN <<>>
    ELSE IF FirstNL(text) = 0 THEN <<text>>
    ELSE <<SubSeq(text, 1, FirstNL(text))>>
         \o ReadLines(SubSeq(text, FirstNL(text) + 1, Len(text)))

\* line 103 without rstrip()
Rstrip_Missing(line) == line

\* line.rstrip(), line 103
RECURSIVE Rstrip(_)
Rstrip(line) ==
    IF line # <<>> /\ line[Len(line)] \in Whitespace
    THEN Rstrip(SubSeq(line, 1, Len(line) - 1))
    ELSE line

\* line 103: lines = [line.rstrip() for line in f.readlines()]
FileLines(text) == [i \in DOMAIN ReadLines(text) |-> Rstrip(ReadLines(text)[i])]

\* lines 109-110: the text of the lines start..end
SectionText(ls, r) == Join(SubSeq(ls, r.start + 1, r.end + 1))

\* line 111: sections_value[section] = value
Store(sv, name, value) ==
    [n \in (DOMAIN sv) \cup {name} |-> IF n = name THEN value ELSE sv[n]]

\* lines 106-111 with a `break` after the first range
StoreRanges_KeepFirst(sv, ls, name, ranges) ==
    IF ranges = <<>> THEN sv
    ELSE Store(sv, name, SectionText(ls, Head(ranges)))

\* lines 106-111: the loop over the ranges found for one section
RECURSIVE StoreRanges(_, _, _, _)
StoreRanges(sv, ls, name, ranges) ==
    IF ranges = <<>> THEN sv
    ELSE StoreRanges(Store(sv, name, SectionText(ls, Head(ranges))),
                     ls, name, Tail(ranges))

\* lines 104-111: the loop over keys_to_find
RECURSIVE StoreSections(_, _, _)
StoreSections(sv, ls, keys) ==
    IF keys = <<>> THEN sv
    ELSE StoreSections(StoreRanges(sv, ls, Head(keys), find_section_lines(ls, Head(keys))),
                       ls, Tail(keys))

\* lines 100-111: the file is read and sections_value is built
BuildSections ==
    /\ pc = "open"
    /\ yml_file.exists
    /\ lines' = FileLines(yml_file.text)
    /\ sections_value' = StoreSections(<<>>, lines', keys_to_find)
    /\ pc' = "built"
    /\ UNCHANGED <<yml_file, keys_to_find, scanVars, cliVars, exit_code>>

\* lines 102, 116-118: open() raises FileNotFoundError; sys.exit(0)
FileNotFound ==
    /\ pc = "open"
    /\ ~yml_file.exists
    /\ exit_code' = 0
    /\ pc' = "exited"
    /\ UNCHANGED <<extractVars, scanVars, cliVars>>

\* lines 100-111 applied to a file that holds the text extracted for one name
ExtractAgain ==
    /\ pc = "built"
    /\ \E name \in DOMAIN sections_value :
        /\ yml_file' = [exists |-> TRUE, text |-> sections_value[name]]
        /\ keys_to_find' = <<name>>
    /\ lines' = FileLines(yml_file'.text)
    /\ sections_value' = StoreSections(<<>>, lines', keys_to_find')
    /\ pc' = "rebuilt"
    /\ UNCHANGED <<scanVars, cliVars, exit_code>>

ScanIdle ==
    /\ file_contents = <<>>
    /\ sec = <<>>
    /\ line_num = 0
    /\ begin = 0
    /\ sec_ranges = <<>>
    /\ visited = <<>>

InitExtract ==
    /\ ScanIdle
    /\ CliIdle
    /\ exit_code = -1
    /\ yml_file \in { [exists |-> TRUE, text |-> t] : t \in FileTexts }
                    \cup { [exists |-> FALSE, text |-> <<>>] }
    /\ keys_to_find \in KeyLists
    /\ lines = <<>>
    /\ sections_value = <<>>
    /\ pc = "open"

NextExtract ==
    \/ BuildSections
    \/ FileNotFound
    \/ ExtractAgain

SpecExtract == InitExtract /\ [][NextExtract]_vars

----------------------------------------------------------------------------
(* Properties of the extractor *)

FoundRanges(name) == find_section_lines(lines, name)

KeySet == { keys_to_find[i] : i \in DOMAIN keys_to_find }

\* C5 as stated: the value extracted for a name is the text of the first
\* range the scanner finds for it, and a name without a range has no value.
C5_FirstRangeIsExtracted ==
    pc = "built" =>
        \A name \in KeySet :
            IF FoundRanges(name) = <<>>
            THEN name \notin DOMAIN sections_value
            ELSE /\ name \in DOMAIN sections_value
                 /\ sections_value[name] = SectionText(lines, FoundRanges(name)[1])

\* C5, amended: the value extracted for a name is the text of the last range
\* the scanner finds for it, and a name without a range has no value.
C5_LastRangeIsExtracted ==
    pc = "built" =>
        \A name \in KeySet :
            IF FoundRanges(name) = <<>>
            THEN name \notin DOMAIN sections_value
            ELSE /\ name \in DOMAIN sections_value
                 /\ sections_value[name] =
                        SectionText(lines, FoundRanges(name)[Len(FoundRanges(name))])

C5_Witness ==
    /\ pc = "built"
    /\ \E name \in KeySet :
        /\ Len(FoundRanges(name)) >= 2
        /\ SectionText(lines, FoundRanges(name)[1]) # sections_value[name]
    /\ \E name \in KeySet : FoundRanges(name) = <<>>

\* C9 as stated: extracting the same name from an extracted text T yields T.
C9_ReextractionYieldsSameText ==
    pc = "rebuilt" =>
        /\ keys_to_find[1] \in DOMAIN sections_value
        /\ sections_value[keys_to_find[1]] = yml_file.text

\* C9, amended: extracting the same name from an extracted text T yields T
\* when T does not end in a newline, and T without its final newline when it
\* does (the section's last line is blank).
C9_ReextractionDropsOneBlankLine ==
    pc = "rebuilt" =>
        LET T == yml_file.text
            name == keys_to_find[1]
        IN  /\ T # <<>>
            /\ name \in DOMAIN sections_value
            /\ sections_value[name] =
                   IF T[Len(T)] = NL THEN SubSeq(T, 1, Len(T) - 1) ELSE T

C9_Witness ==
    /\ pc = "rebuilt"
    /\ Len(yml_file.text) >= 2
    /\ yml_file.text[Len(yml_file.text)] = NL
    /\ yml_file.text[Len(yml_file.text) - 1] = NL
    /\ sections_value[keys_to_find[1]] # yml_file.text

----------------------------------------------------------------------------
(* The command-line scripts: src/compare_pr.py and src/compare_rule_var.py *)

MaxDocLines == 2

\* Optional[str]: None is <<>>, the string s is <<s>>
None == <<>>
Some(s) == <<s>>

\* A file content is a sequence of lines as the YAML loader classifies them:
\* a template line '{{{ ... }}}', a line that makes the document no mapping
\* (or no YAML at all), or a top-level "k: v" entry.  v is null, a string,
\* or a one-item list (s is its item).
DocLine(t, k, ty, s) == [t |-> t, k |-> k, ty |-> ty, s |-> s]

DocLines ==
    { DocLine("tmpl", "", "null", ""),
      DocLine("bad", "", "null", ""),
      DocLine("kv", "desc", "null", ""),
      DocLine("kv", "desc", "str", ""),
      DocLine("kv", "desc", "str", "a"),
      DocLine("kv", "desc", "list", "a"),
      DocLine("kv", "opts", "str", "a") }

Docs == SeqsUpTo(DocLines, MaxDocLines)

\* the shorter contents, enough to reach every exit of the scripts
ShortDocs == { d \in Docs : Len(d) < MaxDocLines }

ArgsKeys == { <<"desc">>, <<"opts", "desc">> }

\* answers of `gh api`: exit status, and whether stdout is JSON with a
\* 'content' member (doc; the empty content is <<>>)
Responses(D) ==
    { [rc |-> 1, json |-> FALSE, doc |-> <<>>], [rc |-> 0, json |-> FALSE, doc |-> <<>>] }
    \cup { [rc |-> 0, json |-> TRUE, doc |-> d] : d \in D }

\* get_file_content_from_pr, src/compare_pr.py:15-35 (= compare_rule_var.py:19-42)
get_file_content_from_pr(resp) ==
    IF resp.rc # 0 THEN <<>>
    ELSE IF ~resp.json THEN <<>>
    ELSE resp.doc

\* compare_pr.py:45-47: the lines that do not start with '{{{'
CleanLines(content) == SelectSeq(content, LAMBDA l : l.t # "tmpl")

\* compare_pr.py:53-58: yaml.load gives a dict, without error
LoadsAsDict(clean) ==
    /\ \A i \in DOMAIN clean : clean[i].t = "kv"
    /\ \A i, j \in DOMAIN clean : clean[i].k = clean[j].k => i = j

\* compare_pr.py:60-64: the value of the first key of keys that is in data
RECURSIVE FoundValue(_, _)
FoundValue(clean, keys) ==
    IF keys = <<>> THEN [ty |-> "null", s |-> ""]
    ELSE IF \E i \in DOMAIN clean : clean[i].k = Head(keys)
         THEN LET i == CHOOSE i \in DOMAIN clean : clean[i].k = Head(keys)
              IN  [ty |-> clean[i].ty, s |-> clean[i].s]
         ELSE FoundValue(clean, Tail(keys))

\* compare_pr.py:70-75: a list is dumped as YAML, a scalar goes through str()
ValueText(v) == IF v.ty = "list" THEN "- " \o v.s ELSE v.s

\* parse_yaml_and_get_keys, src/compare_pr.py:37-75
parse_yaml_and_get_keys(content, keys) ==
    LET clean == CleanLines(content)
    IN  IF clean = <<>> THEN None
        ELSE IF ~LoadsAsDict(clean) THEN None
        ELSE IF FoundValue(clean, keys).ty = "null" THEN None
        ELSE Some(ValueText(FoundValue(clean, keys)))

\* line 126 comparing (before_value or "") with (after_value or "")
ValuesEqual_NoneAsEmpty(a, b) ==
    (IF a = None THEN "" ELSE a[1]) = (IF b = None THEN "" ELSE b[1])

\* compare_pr.py:126 (= compare_rule_var.py:193): before_value == after_value
ValuesEqual(a, b) == a = b

\* both scripts ending sys.exit(1) when the revisions cannot be resolved
ResolveFailureStatus_AlwaysOne(which) == 1

\* compare_pr.py:101,111: sys.exit(1); compare_rule_var.py:156,170: sys.exit(0)
ResolveFailureStatus(which) == IF which = "compare_pr" THEN 1 ELSE 0

Finish(point, status) ==
    /\ pc' = point
    /\ exit_code' = status
    /\ exits' = exits \cup {<<point, status>>}

\* lines 97-111 (147-170): `gh pr view` fails or its output has no SHAs
ResolveFails ==
    /\ pc = "start"
    /\ Finish("unresolved", ResolveFailureStatus(script))
    /\ UNCHANGED <<script, args_keys, before_content, after_content, before_value,
                   after_value, rule_updated, scanVars, extractVars>>

\* lines 97-108 (147-162): base_sha and head_sha are known
Resolve ==
    /\ pc = "start"
    /\ pc' = "resolved"
    /\ UNCHANGED <<cliVars, scanVars, extractVars, exit_code>>

\* line 114 (173-175): the content at the base revision
FetchBefore(D) ==
    /\ pc = "resolved"
    /\ \E resp \in Responses(D) : before_content' = get_file_content_from_pr(resp)
    /\ pc' = "fetched_before"
    /\ UNCHANGED <<script, args_keys, after_content, before_value, after_value,
                   rule_updated, exits, scanVars, extractVars, exit_code>>

\* line 115 (177-179): the content at the head revision
FetchAfter(D) ==
    /\ pc = "fetched_before"
    /\ \E resp \in Responses(D) : after_content' = get_file_content_from_pr(resp)
    /\ pc' = "fetched"
    /\ UNCHANGED <<script, args_keys, before_content, before_value, after_value,
                   rule_updated, exits, scanVars, extractVars, exit_code>>

\* compare_pr.py:118-119
PrParse ==
    /\ pc = "fetched"
    /\ script = "compare_pr"
    /\ before_value' = parse_yaml_and_get_keys(before_content, args_keys)
    /\ after_value' = parse_yaml_and_get_keys(after_content, args_keys)
    /\ pc' = "parsed"
    /\ UNCHANGED <<script, args_keys, before_content, after_content, rule_updated,
                   exits, scanVars, extractVars, exit_code>>

\* compare_pr.py:121-132; main returns and the interpreter exits with status 0
PrCompare ==
    /\ pc = "parsed"
    /\ script = "compare_pr"
    /\ IF ValuesEqual(before_value, after_value)
       THEN rule_updated' = "false" /\ Finish("no_change", 0)
       ELSE rule_updated' = "true" /\ Finish("change", 0)
    /\ UNCHANGED <<script, args_keys, before_content, after_content, before_value,
                   after_value, scanVars, extractVars>>

\* compare_rule_var.py:183, 102, 116-118: get_section_value opens the content
\* as a file name; no file has the empty name, and no file need have any
\* other; FileNotFoundError is answered by sys.exit(0)
RvFileNotFound ==
    /\ pc = "fetched"
    /\ script = "compare_rule_var"
    /\ Finish("file_not_found", 0)
    /\ UNCHANGED <<script, args_keys, before_content, after_content, before_value,
                   after_value, rule_updated, scanVars, extractVars>>

\* compare_rule_var.py:183, 102-113: a file named like the content exists; it
\* is read and scanned, then line 113 uses the undefined name `yaml`:
\* NameError, uncaught, the interpreter exits with status 1
RvNameError ==
    /\ pc = "fetched"
    /\ script = "compare_rule_var"
    /\ before_content # <<>>
    /\ Finish("traceback", 1)
    /\ UNCHANGED <<script, args_keys, before_content, after_content, before_value,
                   after_value, rule_updated, scanVars, extractVars>>

ExitPoints == {"unresolved", "no_change", "change", "file_not_found", "traceback"}

\* the script is run again, on another pull request
RunAgain ==
    /\ pc \in ExitPoints
    /\ pc' = "start"
    /\ exit_code' = -1
    /\ args_keys' \in ArgsKeys
    /\ before_content' = <<>>
    /\ after_content' = <<>>
    /\ before_value' = None
    /\ after_value' = None
    /\ rule_updated' = ""
    /\ UNCHANGED <<script, exits, scanVars, extractVars>>

InitCli(scripts) ==
    /\ ScanIdle
    /\ ExtractIdle
    /\ script \in scripts
    /\ args_keys \in ArgsKeys
    /\ before_content = <<>>
    /\ after_content = <<>>
    /\ before_value = None
    /\ after_value = None
    /\ rule_updated = ""
    /\ exit_code = -1
    /\ exits = {}
    /\ pc = "start"

\* one run of compare_pr.py
InitPr == InitCli({"compare_pr"})

NextPr ==
    \/ ResolveFails
    \/ Resolve
    \/ FetchBefore(Docs)
    \/ FetchAfter(Docs)
    \/ PrParse
    \/ PrCompare

SpecPr == InitPr /\ [][NextPr]_vars

\* repeated runs of either script
InitRuns == InitCli({"compare_pr", "compare_rule_var"})

NextRuns ==
    \/ ResolveFails
    \/ Resolve
    \/ FetchBefore(ShortDocs)
    \/ FetchAfter(ShortDocs)
    \/ PrParse
    \/ PrCompare
    \/ RvFileNotFound
    \/ RvNameError
    \/ RunAgain

SpecRuns == InitRuns /\ [][NextRuns]_vars

----------------------------------------------------------------------------
(* Properties of the command-line scripts *)

Absent(v) == v = None

\* absent equals only absent; present values are equal as strings
SameValue(a, b) ==
    \/ Absent(a) /\ Absent(b)
    \/ ~Absent(a) /\ ~Absent(b) /\ a[1] = b[1]

Compared == pc \in {"no_change", "change"}

\* C6: a run that fetched empty content for a revision still reaches the
\* comparison and reports changed = (before_value != after_value); it never
\* ends before the comparison.
C6_EmptyContentReachesComparison ==
    (/\ pc \in ExitPoints \ {"unresolved"}
     /\ (before_content = <<>> \/ after_content = <<>>)) =>
        /\ Compared
        /\ (pc = "change") <=> ~SameValue(before_value, after_value)

\* C7: a run that reaches the comparison reports "change detected" exactly
\* when before_value != after_value, absent being equal only to absent.
C7_ChangeReportedIffValuesDiffer ==
    Compared =>
        /\ (pc = "change") <=> ~SameValue(before_value, after_value)
        /\ (rule_updated = "true") <=> ~SameValue(before_value, after_value)
        /\ (rule_updated = "false") <=> SameValue(before_value, after_value)

\* one side absent, the other the present empty string: a change
C7_Witness ==
    /\ pc = "change"
    /\ rule_updated = "true"
    /\ Absent(before_value)
    /\ after_value = Some("")

ThreeOutcomes == {"no_change", "change", "unresolved"}

\* C8 as stated: no two of the outcomes "no change", "change detected" and
\* "could not resolve inputs" ever end with the same exit code.
C8_OutcomesHaveDistinctExitCodes ==
    \A e1, e2 \in exits :
        (e1[1] \in ThreeOutcomes /\ e2[1] \in ThreeOutcomes /\ e1[1] # e2[1]) =>
            e1[2] # e2[2]

\* C8, amended: compare_pr.py ends "no change" and "change detected" both
\* with exit code 0 and "could not resolve inputs" with exit code 1;
\* compare_rule_var.py ends "could not resolve inputs" with exit code 0.
C8_ExitCodesOfTheScripts ==
    \A e \in exits :
        /\ (script = "compare_pr" /\ e[1] \in {"no_change", "change"}) => e[2] = 0
        /\ (script = "compare_pr" /\ e[1] = "unresolved") => e[2] = 1
        /\ (script = "compare_rule_var" /\ e[1] = "unresolved") => e[2] = 0

C8_Witness ==
    /\ script = "compare_pr"
    /\ {<<"no_change", 0>>, <<"change", 0>>, <<"unresolved", 1>>} \subseteq exits

====
